---- MODULE Spec2Model ----
(***************************************************************************)
(* A model of src/src/App.tsx, the "Prompt Reverse Engineer" component:    *)
(* image ingestion (drag-and-drop, file picker, FileReader), the analysis  *)
(* call, the modification call, the clipboard export and reset, with the   *)
(* asynchronous completions (reader onload, promise settlement, timers)    *)
(* as separate steps of the browser's event loop.                          *)
(***************************************************************************)
EXTENDS Naturals, Sequences, FiniteSets, TLC

(***************************************************************************)
(* Bounds of the model.                                                    *)
(***************************************************************************)
\* files handed to the FileReader over a session
MaxUploads == 2
\* modification calls started over a session
MaxModifies == 2
\* copies made over a session
MaxCopies == 2

(***************************************************************************)
(* JSON values.  A value is a string, null or an object; an object keeps   *)
(* its entries in insertion order, as Object.entries and JSON.stringify    *)
(* see them.                                                               *)
(***************************************************************************)
JNull == [t |-> "null", s |-> "", e |-> <<>>]
JStr(str) == [t |-> "str", s |-> str, e |-> <<>>]
JObj(entries) == [t |-> "obj", s |-> "", e |-> entries]

Keys(v) == {v.e[i][1] : i \in 1..Len(v.e)}
HasKey(v, k) == v.t = "obj" /\ k \in Keys(v)
Get(v, k) == LET i == CHOOSE j \in 1..Len(v.e) : v.e[j][1] = k IN v.e[i][2]

\* JavaScript truthiness of a value (a missing member is undefined: falsy)
Truthy(v) == v.t = "obj" \/ (v.t = "str" /\ v.s # "")
TruthyMember(v, k) == HasKey(v, k) /\ Truthy(Get(v, k))

\* obj[k] = val on a plain object: replaces in place or appends
Put(entries, k, val) ==
    IF \E j \in 1..Len(entries) : entries[j][1] = k
    THEN [j \in 1..Len(entries) |->
             IF entries[j][1] = k THEN <<k, val>> ELSE entries[j]]
    ELSE Append(entries, <<k, val>>)

(***************************************************************************)
(* JSON text: a sequence of tokens.  "nl" is a line break followed by n    *)
(* spaces of indentation, "sp" a single space.                             *)
(***************************************************************************)
Tok(kind, str, ind) == [k |-> kind, s |-> str, n |-> ind]
LBrace == Tok("{", "", 0)
RBrace == Tok("}", "", 0)
Colon == Tok(":", "", 0)
Comma == Tok(",", "", 0)
Space == Tok("sp", "", 0)
NullTok == Tok("null", "", 0)
StrTok(str) == Tok("str", str, 0)
NL(ind) == Tok("nl", "", ind)
IsWs(tok) == tok.k \in {"nl", "sp"}

\* String.prototype.trim
RECURSIVE LTrim(_)
LTrim(text) ==
    IF text # <<>> /\ IsWs(Head(text)) THEN LTrim(Tail(text)) ELSE text
RECURSIVE RTrim(_)
RTrim(text) ==
    IF text # <<>> /\ IsWs(text[Len(text)])
    THEN RTrim(SubSeq(text, 1, Len(text) - 1))
    ELSE text
Trim(text) == RTrim(LTrim(text))

\* JSON.stringify(value, null, 2)
RECURSIVE StringifyAt(_, _)
RECURSIVE StringifyMembers(_, _, _)
StringifyMembers(entries, ind, i) ==
    IF i > Len(entries) THEN <<>>
    ELSE <<NL(ind), StrTok(entries[i][1]), Colon, Space>>
         \o StringifyAt(entries[i][2], ind)
         \o (IF i < Len(entries) THEN <<Comma>> ELSE <<>>)
         \o StringifyMembers(entries, ind, i + 1)
StringifyAt(v, ind) ==
    IF v.t = "str" THEN <<StrTok(v.s)>>
    ELSE IF v.t = "null" THEN <<NullTok>>
    ELSE IF v.e = <<>> THEN <<LBrace, RBrace>>
    ELSE <<LBrace>> \o StringifyMembers(v.e, ind + 2, 1) \o <<NL(ind), RBrace>>
Stringify(v) == StringifyAt(v, 0)

\* JSON.parse: [ok, v, next]; ok = FALSE is the SyntaxError it throws
RECURSIVE SkipWs(_, _)
SkipWs(text, i) ==
    IF i <= Len(text) /\ IsWs(text[i]) THEN SkipWs(text, i + 1) ELSE i
ParseFail == [ok |-> FALSE, v |-> JNull, next |-> 0]
RECURSIVE ParseValue(_, _)
RECURSIVE ParseMembers(_, _, _)
ParseMembers(text, i, acc) ==
    LET k == SkipWs(text, i)
        c == SkipWs(text, k + 1)
    IN  IF k > Len(text) \/ text[k].k # "str" THEN ParseFail
        ELSE IF c > Len(text) \/ text[c].k # ":" THEN ParseFail
        ELSE LET val == ParseValue(text, c + 1)
                 d == SkipWs(text, val.next)
             IN  IF ~val.ok \/ d > Len(text) THEN ParseFail
                 ELSE IF text[d].k = ","
                      THEN ParseMembers(text, d + 1, Put(acc, text[k].s, val.v))
                 ELSE IF text[d].k = "}"
                      THEN [ok |-> TRUE, v |-> JObj(Put(acc, text[k].s, val.v)),
                            next |-> d + 1]
                 ELSE ParseFail
ParseValue(text, i) ==
    LET j == SkipWs(text, i)
    IN  IF j > Len(text) THEN ParseFail
        ELSE IF text[j].k = "str"
             THEN [ok |-> TRUE, v |-> JStr(text[j].s), next |-> j + 1]
        ELSE IF text[j].k = "null"
             THEN [ok |-> TRUE, v |-> JNull, next |-> j + 1]
        ELSE IF text[j].k = "{"
             THEN LET m == SkipWs(text, j + 1)
                  IN  IF m <= Len(text) /\ text[m].k = "}"
                      THEN [ok |-> TRUE, v |-> JObj(<<>>), next |-> m + 1]
                      ELSE ParseMembers(text, j + 1, <<>>)
        ELSE ParseFail
JSONParse(text) ==
    LET r == ParseValue(text, 1)
    IN  IF r.ok /\ SkipWs(text, r.next) > Len(text) THEN r ELSE ParseFail

(***************************************************************************)
(* The prompt schema: ten fields, each an {en, zh} pair.  A schema object  *)
(* is what the model service returns under responseSchema for the image    *)
(* payload src; rev = 1 marks a text revised by a modification.            *)
(***************************************************************************)
FieldLangs == <<"en", "zh">>
SchemaKeys ==
    <<"subject", "style", "lighting", "composition", "shootingAngle",
      "lensSettings", "focalLength", "imageDimensions", "colors", "fullPrompt">>
FieldText(lang, key, src, rev) ==
    lang \o ":" \o key \o "@" \o src \o (IF rev = 1 THEN "'" ELSE "")
SchemaField(key, src, rev) ==
    JObj([l \in 1..Len(FieldLangs) |->
             <<FieldLangs[l], JStr(FieldText(FieldLangs[l], key, src, rev))>>])
SchemaObject(src, rev) ==
    JObj([i \in 1..Len(SchemaKeys) |->
             <<SchemaKeys[i], SchemaField(SchemaKeys[i], src, rev)>>])

AnalyzeError == JObj(<< <<"error", JStr("Failed to analyze image. Please try again.")>> >>)

(***************************************************************************)
(* Files.  A MIME type and a data URL are sequences of pieces, so that     *)
(* startsWith('image/') and split(',') are computed, not assumed.          *)
(***************************************************************************)
ImagePrefix == <<"image", "/">>
ImagePng == <<"image", "/", "png">>
TextPlain == <<"text", "/", "plain">>
NoType == <<>>
File(id, type) == [id |-> id, type |-> type]
\* no file in the event (an empty FileList)
NoFile == File(0, NoType)
\* the files the user has at hand: two images and a text file
ImageFiles == {File(1, ImagePng), File(2, ImagePng)}
OtherFiles == {File(3, TextPlain)}
Files == ImageFiles \cup OtherFiles
FileInputs == Files \cup {NoFile}

StartsWith(str, prefix) ==
    Len(str) >= Len(prefix) /\ SubSeq(str, 1, Len(prefix)) = prefix
Payload(file) == "b64:" \o ToString(file.id)
\* FileReader.readAsDataURL
DataURL(file) == <<"data:">> \o file.type \o <<";base64", ",", Payload(file)>>
NoImage == <<>>
\* base64Data.split(',')[1]
RECURSIVE SplitComma(_, _, _)
SplitComma(url, i, piece) ==
    IF i > Len(url) THEN <<piece>>
    ELSE IF url[i] = "," THEN <<piece>> \o SplitComma(url, i + 1, <<>>)
    ELSE SplitComma(url, i + 1, Append(piece, url[i]))
Base64Of(url) ==
    LET parts == SplitComma(url, 1, <<>>)
    IN  IF Len(parts) >= 2 /\ parts[2] # <<>> THEN parts[2][1] ELSE ""

(***************************************************************************)
(* The model service.  A call resolves with a response whose text may be   *)
(* absent, or rejects; the text it gives is the schema JSON, nothing, only *)
(* white space, or a JSON text cut short.                                  *)
(***************************************************************************)
ResolveKinds == {"ok", "absent", "empty", "blank", "truncated"}
ResponseKinds == ResolveKinds \cup {"reject"}
Response(kind, src, rev) ==
    [present |-> kind # "absent",
     text |-> CASE kind = "ok" -> <<NL(0)>> \o Stringify(SchemaObject(src, rev)) \o <<NL(0)>>
                [] kind = "blank" -> <<NL(0), Space>>
                [] kind = "truncated" -> SubSeq(Stringify(SchemaObject(src, rev)), 1, 6)
                [] OTHER -> <<>>]
\* response.text?.trim() || "{}"
JsonStr(response) ==
    IF response.present /\ Trim(response.text) # <<>>
    THEN Trim(response.text)
    ELSE <<LBrace, RBrace>>
\* JSON.parse(jsonStr) of a settled call; ok = FALSE when the call rejected
\* or the parse threw
Settle(kind, src, rev) ==
    IF kind = "reject" THEN ParseFail
    ELSE JSONParse(JsonStr(Response(kind, src, rev)))
\* every outcome the calls of a session can have, computed once
Sources == {Payload(file) : file \in Files} \cup {""}
Outcomes ==
    [kind \in ResponseKinds, src \in Sources, rev \in {0, 1} |->
        Settle(kind, src, rev)]
Outcome(kind, src, rev) == Outcomes[kind, src, rev]

(***************************************************************************)
(* The modification instruction: a string of characters.                   *)
(***************************************************************************)
\* what the user types: nothing, white space only, a padded request
Instructions == {<<>>, <<" ", " ">>, <<" ", "a", " ">>}
RECURSIVE InstrLTrim(_)
InstrLTrim(str) ==
    IF str # <<>> /\ Head(str) = " " THEN InstrLTrim(Tail(str)) ELSE str
RECURSIVE InstrRTrim(_)
InstrRTrim(str) ==
    IF str # <<>> /\ str[Len(str)] = " "
    THEN InstrRTrim(SubSeq(str, 1, Len(str) - 1))
    ELSE str
InstrTrim(str) == InstrRTrim(InstrLTrim(str))

RemoveAt(seq, i) == SubSeq(seq, 1, i - 1) \o SubSeq(seq, i + 1, Len(seq))

(***************************************************************************)
(* State.  The first six are the component's useState cells; the rest is *)
(* what the browser holds for it: pending file reads, model calls in       *)
(* flight, pending timers and the clipboard.  origin, lastOp and used are   *)
(* history variables: the payload the result was derived from, the handler *)
(* or callback that ran last, and how many reads, modification calls and   *)
(* copies the session has started.                                         *)
(***************************************************************************)
VARIABLES image, isLoading, isModifying, result, copied,
          modifyInstruction, reads, analyses, modifications, timers,
          clipboard, origin, lastOp, used

uiState == <<image, isLoading, isModifying, result, copied,
             modifyInstruction>>
vars == <<image, isLoading, isModifying, result, copied,
          modifyInstruction, reads, analyses, modifications, timers,
          clipboard, origin, lastOp, used>>

\* what lastOp records: the handler or callback, and its argument (a file's
\* id, a response kind, a copy mode)
Op(name, arg) == [op |-> name, arg |-> arg]

Init ==
    /\ image = NoImage
    /\ isLoading = FALSE
    /\ isModifying = FALSE
    /\ result = JNull
    /\ copied = "null"
    /\ modifyInstruction = <<>>
    /\ reads = <<>>
    /\ analyses = <<>>
    /\ modifications = <<>>
    /\ timers = <<>>
    /\ clipboard = <<>>
    /\ origin = ""
    /\ lastOp = Op("init", "")
    /\ used = [uploads |-> 0, modifies |-> 0, copies |-> 0]

(***************************************************************************)
(* Image ingestion.  isDragging, which handleDragOver, handleDragLeave and *)
(* handleDrop set, only colours the drop zone and is not part of the       *)
(* state here; nor is the file input's value, which reset clears.          *)
(***************************************************************************)
\* reader.readAsDataURL(file): the read is pending until onload
processFile(file) ==
    /\ used.uploads < MaxUploads
    /\ reads' = Append(reads, file)
    /\ used' = [used EXCEPT !.uploads = @ + 1]

handleDrop(file) ==
    /\ lastOp' = Op("handleDrop", ToString(file.id))
    /\ IF file # NoFile /\ StartsWith(file.type, ImagePrefix)
       THEN processFile(file)
       ELSE UNCHANGED <<reads, used>>
    /\ UNCHANGED <<image, isLoading, isModifying, result, copied,
                   modifyInstruction, analyses, modifications, timers,
                   clipboard, origin>>

handleFileChange(file) ==
    /\ lastOp' = Op("handleFileChange", ToString(file.id))
    /\ IF file # NoFile
       THEN processFile(file)
       ELSE UNCHANGED <<reads, used>>
    /\ UNCHANGED <<image, isLoading, isModifying, result, copied,
                   modifyInstruction, analyses, modifications, timers,
                   clipboard, origin>>

\* reader.onload: setImage, then analyzeImage up to its await
ReaderOnload(i) ==
    /\ i \in 1..Len(reads)
    /\ LET base64 == DataURL(reads[i])
       IN  /\ image' = base64
           /\ isLoading' = TRUE
           /\ result' = JNull
           /\ origin' = ""
           /\ analyses' = Append(analyses,
                  [data |-> Base64Of(base64), mimeType |-> reads[i].type])
    /\ reads' = RemoveAt(reads, i)
    /\ lastOp' = Op("ReaderOnload", "")
    /\ UNCHANGED <<isModifying, copied, modifyInstruction,
                   modifications, timers, clipboard>>
    /\ UNCHANGED used

\* the read fails: no onerror handler is installed
ReaderError(i) ==
    /\ i \in 1..Len(reads)
    /\ reads' = RemoveAt(reads, i)
    /\ lastOp' = Op("ReaderError", "")
    /\ UNCHANGED <<image, isLoading, isModifying, result, copied,
                   modifyInstruction, analyses, modifications, timers,
                   clipboard, origin>>
    /\ UNCHANGED used

(***************************************************************************)
(* The analysis call settles: analyzeImage after its await.                *)
(***************************************************************************)
\* mutant: a response is stored only if it answers the image now shown
AnalyzeResolveForShownImage(i, kind) ==
    /\ i \in 1..Len(analyses)
    /\ LET out == Outcome(kind, analyses[i].data, 0)
       IN  /\ out.ok
           /\ IF analyses[i].data = Base64Of(image)
              THEN result' = out.v /\ origin' = analyses[i].data
              ELSE UNCHANGED <<result, origin>>
    /\ isLoading' = FALSE
    /\ analyses' = RemoveAt(analyses, i)
    /\ lastOp' = Op("AnalyzeResolve", kind)
    /\ UNCHANGED <<image, isModifying, copied, modifyInstruction,
                   reads, modifications, timers, clipboard, used>>

AnalyzeResolve(i, kind) ==
    /\ i \in 1..Len(analyses)
    /\ LET out == Outcome(kind, analyses[i].data, 0)
       IN  /\ out.ok
           /\ result' = out.v
           /\ origin' = analyses[i].data
    /\ isLoading' = FALSE
    /\ analyses' = RemoveAt(analyses, i)
    /\ lastOp' = Op("AnalyzeResolve", kind)
    /\ UNCHANGED <<image, isModifying, copied, modifyInstruction,
                   reads, modifications, timers, clipboard>>
    /\ UNCHANGED used

\* mutant: no finally, a call that throws leaves the loading flag set
AnalyzeThrowNoFinally(i, kind) ==
    /\ i \in 1..Len(analyses)
    /\ ~Outcome(kind, analyses[i].data, 0).ok
    /\ result' = AnalyzeError
    /\ origin' = ""
    /\ analyses' = RemoveAt(analyses, i)
    /\ lastOp' = Op("AnalyzeThrow", kind)
    /\ UNCHANGED <<image, isLoading, isModifying, copied, modifyInstruction,
                   reads, modifications, timers, clipboard, used>>

\* mutant: the catch only logs, as handleModify's does
AnalyzeThrowOnlyLogs(i, kind) ==
    /\ i \in 1..Len(analyses)
    /\ ~Outcome(kind, analyses[i].data, 0).ok
    /\ isLoading' = FALSE
    /\ analyses' = RemoveAt(analyses, i)
    /\ lastOp' = Op("AnalyzeThrow", kind)
    /\ UNCHANGED <<image, isModifying, result, origin, copied,
                   modifyInstruction, reads, modifications, timers,
                   clipboard, used>>

AnalyzeThrow(i, kind) ==
    /\ i \in 1..Len(analyses)
    /\ ~Outcome(kind, analyses[i].data, 0).ok
    /\ result' = AnalyzeError
    /\ origin' = ""
    /\ isLoading' = FALSE
    /\ analyses' = RemoveAt(analyses, i)
    /\ lastOp' = Op("AnalyzeThrow", kind)
    /\ UNCHANGED <<image, isModifying, copied, modifyInstruction,
                   reads, modifications, timers, clipboard>>
    /\ UNCHANGED used

(***************************************************************************)
(* The modification call.                                                  *)
(***************************************************************************)
\* mutant: the guard does not look at result.error
handleModifyIgnoresError ==
    /\ lastOp' = Op("handleModify", "")
    /\ IF InstrTrim(modifyInstruction) = <<>> \/ ~Truthy(result)
       THEN UNCHANGED <<isModifying, modifications, used>>
       ELSE /\ used.modifies < MaxModifies
            /\ used' = [used EXCEPT !.modifies = @ + 1]
            /\ isModifying' = TRUE
            /\ modifications' = Append(modifications,
                   [json |-> Stringify(result),
                    instruction |-> modifyInstruction,
                    src |-> origin])
    /\ UNCHANGED <<image, isLoading, result, copied, modifyInstruction,
                   reads, analyses, timers, clipboard, origin>>

handleModify ==
    /\ lastOp' = Op("handleModify", "")
    /\ IF InstrTrim(modifyInstruction) = <<>> \/ ~Truthy(result)
          \/ TruthyMember(result, "error")
       THEN UNCHANGED <<isModifying, modifications, used>>
       ELSE /\ used.modifies < MaxModifies
            /\ used' = [used EXCEPT !.modifies = @ + 1]
            /\ isModifying' = TRUE
            /\ modifications' = Append(modifications,
                   [json |-> Stringify(result),
                    instruction |-> modifyInstruction,
                    src |-> origin])
    /\ UNCHANGED <<image, isLoading, result, copied,
                   modifyInstruction, reads, analyses, timers, clipboard,
                   origin>>

ModifyResolve(i, kind) ==
    /\ i \in 1..Len(modifications)
    /\ LET out == Outcome(kind, modifications[i].src, 1)
       IN  /\ out.ok
           /\ result' = out.v
    /\ modifyInstruction' = <<>>
    /\ origin' = modifications[i].src
    /\ isModifying' = FALSE
    /\ modifications' = RemoveAt(modifications, i)
    /\ lastOp' = Op("ModifyResolve", kind)
    /\ UNCHANGED <<image, isLoading, copied, reads, analyses,
                   timers, clipboard>>
    /\ UNCHANGED used

\* mutant: the catch stores an error result, as analyzeImage's does
ModifyThrowStoresError(i, kind) ==
    /\ i \in 1..Len(modifications)
    /\ ~Outcome(kind, modifications[i].src, 1).ok
    /\ isModifying' = FALSE
    /\ result' = AnalyzeError
    /\ origin' = ""
    /\ modifications' = RemoveAt(modifications, i)
    /\ lastOp' = Op("ModifyThrow", kind)
    /\ UNCHANGED <<image, isLoading, copied, modifyInstruction, reads,
                   analyses, timers, clipboard, used>>

ModifyThrow(i, kind) ==
    /\ i \in 1..Len(modifications)
    /\ ~Outcome(kind, modifications[i].src, 1).ok
    /\ isModifying' = FALSE
    /\ modifications' = RemoveAt(modifications, i)
    /\ lastOp' = Op("ModifyThrow", kind)
    /\ UNCHANGED <<image, isLoading, result, copied,
                   modifyInstruction, reads, analyses, timers, clipboard,
                   origin>>
    /\ UNCHANGED used

\* the input's onChange
onChange(text) ==
    /\ modifyInstruction' = text
    /\ lastOp' = Op("onChange", "")
    /\ UNCHANGED <<image, isLoading, isModifying, result, copied,
                   reads, analyses, modifications, timers, clipboard, origin>>
    /\ UNCHANGED used

(***************************************************************************)
(* Clipboard export.                                                       *)
(***************************************************************************)
Modes == {"all", "en", "zh"}

\* mutant: the projection reads the English member whatever the mode
FilterValueAlwaysEn(mode, value) ==
    IF Truthy(value) /\ value.t = "obj" /\ HasKey(value, "en")
    THEN Get(value, "en")
    ELSE value

FilterValue(mode, value) ==
    IF Truthy(value) /\ value.t = "obj" /\ HasKey(value, mode)
    THEN Get(value, mode)
    ELSE value
RECURSIVE FilteredResult(_, _, _, _)
FilteredResult(mode, entries, i, acc) ==
    IF i > Len(entries) THEN acc
    ELSE FilteredResult(mode, entries, i + 1,
             Put(acc, entries[i][1], FilterValue(mode, entries[i][2])))
TextToCopy(mode, res) ==
    IF mode = "all"
    THEN Stringify(res)
    ELSE Stringify(JObj(FilteredResult(mode, res.e, 1, <<>>)))

\* mutant: no early return on a null result ('all' then writes "null")
copyToClipboardNoGuard(mode) ==
    /\ lastOp' = Op("copyToClipboard", mode)
    /\ IF ~Truthy(result) /\ mode # "all"
       THEN UNCHANGED <<clipboard, copied, timers, used>>
       ELSE /\ used.copies < MaxCopies
            /\ used' = [used EXCEPT !.copies = @ + 1]
            /\ clipboard' = TextToCopy(mode, result)
            /\ copied' = mode
            /\ timers' = Append(timers, mode)
    /\ UNCHANGED <<image, isLoading, isModifying, result, modifyInstruction,
                   reads, analyses, modifications, origin>>

copyToClipboard(mode) ==
    /\ lastOp' = Op("copyToClipboard", mode)
    /\ IF ~Truthy(result)
       THEN UNCHANGED <<clipboard, copied, timers, used>>
       ELSE /\ used.copies < MaxCopies
            /\ used' = [used EXCEPT !.copies = @ + 1]
            /\ clipboard' = TextToCopy(mode, result)
            /\ copied' = mode
            /\ timers' = Append(timers, mode)
    /\ UNCHANGED <<image, isLoading, isModifying, result,
                   modifyInstruction, reads, analyses, modifications, origin>>

\* the two-second timers fire in the order they were set
TimerFire ==
    /\ timers # <<>>
    /\ copied' = "null"
    /\ timers' = Tail(timers)
    /\ lastOp' = Op("TimerFire", "")
    /\ UNCHANGED <<image, isLoading, isModifying, result,
                   modifyInstruction, reads, analyses, modifications,
                   clipboard, origin>>
    /\ UNCHANGED used

reset ==
    /\ image' = NoImage
    /\ result' = JNull
    /\ modifyInstruction' = <<>>
    /\ origin' = ""
    /\ lastOp' = Op("reset", "")
    /\ UNCHANGED <<isLoading, isModifying, copied, reads,
                   analyses, modifications, timers, clipboard>>
    /\ UNCHANGED used

(***************************************************************************)
(* What the render shows, and the user's actions on it.                    *)
(***************************************************************************)
UploadZoneShown == image = NoImage
StartOverShown == image # NoImage
CopyShown == Truthy(result) /\ ~TruthyMember(result, "error")
ModifyShown == Truthy(result) /\ ~TruthyMember(result, "error") /\ ~isLoading
\* mutant: the input and the button are not disabled while modifying
ModifyEnabledWhileModifying == ModifyShown

ModifyEnabled == ModifyShown /\ ~isModifying

Drop(file) == UploadZoneShown /\ handleDrop(file)
\* accept="image/*" only filters what the picker lists: any file can be chosen
PickFile(file) == UploadZoneShown /\ handleFileChange(file)
StartOver == StartOverShown /\ reset
TypeInstruction(text) == ModifyEnabled /\ onChange(text)
\* Enter in the input, or the button when the instruction is not blank
SubmitModify == ModifyEnabled /\ handleModify
ClickCopy(mode) == CopyShown /\ copyToClipboard(mode)

\* the browser's own steps: a read finishes or a call settles
Settlement ==
    \/ \E i \in 1..MaxUploads : ReaderOnload(i)
    \/ \E i \in 1..MaxUploads : ReaderError(i)
    \/ \E i \in 1..MaxUploads, kind \in ResponseKinds : AnalyzeResolve(i, kind)
    \/ \E i \in 1..MaxUploads, kind \in ResponseKinds : AnalyzeThrow(i, kind)
    \/ \E i \in 1..MaxModifies, kind \in ResponseKinds : ModifyResolve(i, kind)
    \/ \E i \in 1..MaxModifies, kind \in ResponseKinds : ModifyThrow(i, kind)

\* the prompt pipeline as the user drives it: upload, analysis, modification
\* and Start Over.  The clipboard export is left out: copyToClipboard and its
\* timer write only copied, the clipboard and the timers, which nothing else
\* reads.
NextPrompt ==
    \/ \E file \in FileInputs : Drop(file)
    \/ \E file \in FileInputs : PickFile(file)
    \/ StartOver
    \/ \E text \in Instructions : TypeInstruction(text)
    \/ SubmitModify
    \/ Settlement

SpecPrompt == Init /\ [][NextPrompt]_vars

\* every call that was started settles: its promise resolves or rejects
AnalysisSettles ==
    \E i \in 1..MaxUploads, kind \in ResponseKinds :
        AnalyzeResolve(i, kind) \/ AnalyzeThrow(i, kind)
ModificationSettles ==
    \E i \in 1..MaxModifies, kind \in ResponseKinds :
        ModifyResolve(i, kind) \/ ModifyThrow(i, kind)
SpecPromptFair ==
    SpecPrompt /\ WF_vars(AnalysisSettles) /\ WF_vars(ModificationSettles)

\* the whole application as the user drives it
Next ==
    \/ NextPrompt
    \/ \E mode \in Modes : ClickCopy(mode)
    \/ TimerFire

Spec == Init /\ [][Next]_vars

\* the handlers called directly, in any state, whatever the render shows,
\* over a session that is handed one file and copies one result
DirectDrop(file) == used.uploads = 0 /\ handleDrop(file)
DirectFileChange(file) == used.uploads = 0 /\ handleFileChange(file)
DirectCopy(mode) == (Truthy(result) => used.copies = 0) /\ copyToClipboard(mode)
NextHandlers ==
    \/ \E file \in FileInputs : DirectDrop(file)
    \/ \E file \in FileInputs : DirectFileChange(file)
    \/ reset
    \/ \E text \in Instructions : onChange(text)
    \/ handleModify
    \/ \E mode \in Modes : DirectCopy(mode)
    \/ Settlement
    \/ TimerFire

SpecHandlers == Init /\ [][NextHandlers]_vars

\* the clipboard export as the user drives it over one analysed image: the
\* copy buttons may be clicked again while earlier two-second timers run
NextExport ==
    \/ \E file \in ImageFiles : used.uploads = 0 /\ Drop(file)
    \/ \E i \in 1..MaxUploads : ReaderOnload(i)
    \/ \E i \in 1..MaxUploads, kind \in ResponseKinds : AnalyzeResolve(i, kind)
    \/ \E i \in 1..MaxUploads, kind \in ResponseKinds : AnalyzeThrow(i, kind)
    \/ StartOver
    \/ \E mode \in Modes : ClickCopy(mode)
    \/ TimerFire

SpecExport == Init /\ [][NextExport]_vars

(***************************************************************************)
(* Vocabulary of the properties below.                                     *)
(***************************************************************************)
\* the file's MIME type starts with 'image/'
IsImageType(type) == Len(type) >= 2 /\ type[1] = "image" /\ type[2] = "/"
\* the {error} shape
IsErrorShape(res) == res.t = "obj" /\ Keys(res) = {"error"}
TenKeys ==
    {"subject", "style", "lighting", "composition", "shootingAngle",
     "lensSettings", "focalLength", "imageDimensions", "colors", "fullPrompt"}
\* an object with en and zh string members
IsLangPair(v) ==
    /\ v.t = "obj"
    /\ {"en", "zh"} \subseteq Keys(v)
    /\ Get(v, "en").t = "str"
    /\ Get(v, "zh").t = "str"
HasTenKeyShape(res) ==
    /\ res.t = "obj"
    /\ Len(res.e) = 10
    /\ Keys(res) = TenKeys
    /\ \A i \in 1..Len(res.e) : IsLangPair(res.e[i][2])
IsBlank(str) == \A i \in 1..Len(str) : str[i] = " "

(***************************************************************************)
(* C1.  A file whose MIME type does not start with 'image/', dropped or    *)
(* picked, leaves image, result, isLoading, isModifying and                *)
(* modifyInstruction unchanged and starts no file read and no analysis     *)
(* call.  The file picker's handler does not look at the type: it hands    *)
(* any file to the FileReader.                                             *)
(***************************************************************************)
C1_NonImageFileIgnored ==
    [][\A file \in Files :
          (/\ ~IsImageType(file.type)
           /\ lastOp'.op \in {"handleDrop", "handleFileChange"}
           /\ lastOp'.arg = ToString(file.id))
          => UNCHANGED <<image, result, isLoading, isModifying,
                         modifyInstruction, reads, analyses>>]_vars

(***************************************************************************)
(* C2.  A result that is neither null nor the {error} shape has exactly    *)
(* the ten schema keys, each an object with en and zh members.  A response *)
(* whose text is empty or absent is parsed as "{}" and stored: a result    *)
(* with no keys at all.                                                    *)
(***************************************************************************)
C2_ResultHasTenKeys ==
    (result # JNull /\ ~IsErrorShape(result)) => HasTenKeyShape(result)

(***************************************************************************)
(* C3.  The step that handles a failed modification call (the call         *)
(* rejected, or its text did not parse) sets isModifying to false and      *)
(* leaves result, image, isLoading and modifyInstruction as they were; no  *)
(* step of a modification stores an {error} result.                        *)
(***************************************************************************)
C3_ModifyFailureKeepsResult ==
    [][/\ (/\ lastOp'.op \in {"ModifyResolve", "ModifyThrow"}
           /\ lastOp'.arg \in {"reject", "truncated"})
          => (/\ ~isModifying'
              /\ UNCHANGED <<result, image, isLoading, modifyInstruction>>)
       /\ lastOp'.op \in {"handleModify", "ModifyResolve", "ModifyThrow"}
          => (IsErrorShape(result') => result' = result)]_vars

\* a modification has just failed under a displayed ten-key result
C3_Witness ==
    /\ lastOp.op = "ModifyThrow"
    /\ lastOp.arg \in {"reject", "truncated"}
    /\ HasTenKeyShape(result)
    /\ ~IsBlank(modifyInstruction)
    /\ ~isModifying

(***************************************************************************)
(* C4.  handleModify starts no model call and changes none of result,      *)
(* isModifying and modifyInstruction when the instruction is empty or      *)
(* only white space, or result is null, or result is the {error} shape.    *)
(***************************************************************************)
C4_ModifyNoOp ==
    [][(/\ lastOp'.op = "handleModify"
        /\ \/ IsBlank(modifyInstruction)
           \/ result = JNull
           \/ IsErrorShape(result))
       => UNCHANGED <<result, isModifying, modifyInstruction,
                      modifications>>]_vars

\* handleModify has just run with an instruction typed under an {error} result
C4_Witness ==
    /\ lastOp.op = "handleModify"
    /\ IsErrorShape(result)
    /\ ~IsBlank(modifyInstruction)
    /\ modifications = <<>>
    /\ ~isModifying

(***************************************************************************)
(* C5.  When an analysis call throws (the call rejected, or its text did   *)
(* not parse), result becomes exactly                                      *)
(* {error: "Failed to analyze image. Please try again."}, isLoading        *)
(* becomes false and image is left as it was.                              *)
(***************************************************************************)
C5_AnalyzeFailureStoresError ==
    [][(/\ lastOp'.op \in {"AnalyzeResolve", "AnalyzeThrow"}
        /\ lastOp'.arg \in {"reject", "truncated"})
       => (/\ result'.t = "obj"
           /\ result'.e =
                << <<"error", [t |-> "str", e |-> <<>>,
                      s |-> "Failed to analyze image. Please try again."]>> >>
           /\ ~isLoading'
           /\ image' = image)]_vars

\* an analysis whose text was cut short has just failed, its image displayed
C5_Witness ==
    /\ lastOp.op = "AnalyzeThrow"
    /\ lastOp.arg = "truncated"
    /\ IsErrorShape(result)
    /\ image # NoImage
    /\ ~isLoading

(***************************************************************************)
(* C6.  After copyToClipboard('en') or ('zh') with a non-null result, the  *)
(* clipboard text is an object with the key set of result; a key whose     *)
(* value in result is an object containing the mode maps to that object's  *)
(* string for the chosen language, the other language's string appearing   *)
(* nowhere for it; any other key maps to its value as it is.               *)
(***************************************************************************)
C6_CopyOneLanguage ==
    (/\ lastOp.op = "copyToClipboard"
     /\ lastOp.arg \in {"en", "zh"}
     /\ result # JNull)
    => LET mode == lastOp.arg
           other == IF mode = "en" THEN "zh" ELSE "en"
           parsed == JSONParse(clipboard)
       IN  /\ parsed.ok
           /\ parsed.v.t = "obj"
           /\ Len(parsed.v.e) = Len(result.e)
           /\ Keys(parsed.v) = Keys(result)
           /\ \A i \in 1..Len(result.e) :
                 LET key == result.e[i][1]
                     value == result.e[i][2]
                 IN  IF value.t = "obj" /\ mode \in Keys(value)
                     THEN /\ Get(parsed.v, key) = Get(value, mode)
                          /\ (other \in Keys(value)
                              /\ Get(value, other) # Get(value, mode))
                             => \A j \in 1..Len(clipboard) :
                                   clipboard[j].s # Get(value, other).s
                     ELSE Get(parsed.v, key) = value

\* the Chinese projection of a ten-key result has just been copied
C6_Witness ==
    /\ lastOp.op = "copyToClipboard"
    /\ lastOp.arg = "zh"
    /\ copied = "zh"
    /\ HasTenKeyShape(result)
    /\ clipboard # <<>>

(***************************************************************************)
(* C7.  copyToClipboard('all') with a non-null result writes exactly       *)
(* JSON.stringify(result, null, 2): the text reads back as the whole       *)
(* result.  With a null result copyToClipboard, in any mode, writes        *)
(* nothing and leaves copied unchanged.                                    *)
(***************************************************************************)
C7_CopyAll ==
    [][lastOp'.op = "copyToClipboard"
       => IF result = JNull
          THEN UNCHANGED <<clipboard, copied>>
          ELSE lastOp'.arg = "all"
               => /\ clipboard' = Stringify(result)
                  /\ JSONParse(clipboard').ok
                  /\ JSONParse(clipboard').v = result]_vars

\* the whole of a ten-key result has just been copied
C7_Witness ==
    /\ lastOp.op = "copyToClipboard"
    /\ lastOp.arg = "all"
    /\ copied = "all"
    /\ HasTenKeyShape(result)
    /\ JSONParse(clipboard).v = result

(***************************************************************************)
(* C8.  Under the user actions the render permits, at most one analysis    *)
(* call is in flight.  The upload zone stays shown until a read completes, *)
(* and Start Over brings it back while a call is in flight: a second file  *)
(* starts a second call.                                                   *)
(***************************************************************************)
C8_OneAnalysisInFlight == Len(analyses) <= 1

(***************************************************************************)
(* C9.  Under the user actions the render permits, at most one             *)
(* modification call is in flight and isModifying is true exactly while    *)
(* one is; a call is started only by handleModify with isModifying false;  *)
(* and only the settling of the call sets isModifying back to false.       *)
(***************************************************************************)
C9_OneModificationInFlight ==
    [][/\ Len(modifications') <= 1
       /\ isModifying' <=> (Len(modifications') = 1)
       /\ Len(modifications') > Len(modifications)
          => (~isModifying /\ lastOp'.op = "handleModify")
       /\ (isModifying /\ ~isModifying')
          => lastOp'.op \in {"ModifyResolve", "ModifyThrow"}]_vars

\* a new analysis has resolved while a modification is still in flight: the
\* input is shown, and disabled
C9_Witness ==
    /\ lastOp.op = "AnalyzeResolve"
    /\ Len(modifications) = 1
    /\ isModifying
    /\ ModifyShown
    /\ used.modifies < MaxModifies

(***************************************************************************)
(* C10.  While an analysis call is in flight isLoading is true.  With two  *)
(* calls in flight the first to settle clears the flag.                    *)
(***************************************************************************)
C10_LoadingWhileInFlight == Len(analyses) >= 1 => isLoading

(***************************************************************************)
(* C11.  Every analysis call that settles stores its own outcome in        *)
(* result, whatever image it was requested for and whatever image is       *)
(* shown: the parsed response (the schema object of its payload, or {}     *)
(* for an empty text) or the error object.  So with two calls in flight    *)
(* the result left once both have settled is that of the call that         *)
(* settled last.                                                           *)
(***************************************************************************)
C11_LastSettledWins ==
    [][lastOp'.op \in {"AnalyzeResolve", "AnalyzeThrow"}
       => \E i \in 1..Len(analyses) :
             /\ analyses' = RemoveAt(analyses, i)
             /\ result' =
                  CASE lastOp'.arg = "ok" -> SchemaObject(analyses[i].data, 0)
                    [] lastOp'.arg \in {"absent", "empty", "blank"} -> JObj(<<>>)
                    [] OTHER -> AnalyzeError]_vars

\* two calls overlapped and the one for the earlier image settled last: its
\* response is the result, under the later image
C11_Witness ==
    /\ lastOp = Op("AnalyzeResolve", "ok")
    /\ analyses = <<>>
    /\ image # NoImage
    /\ origin # Base64Of(image)
    /\ result = SchemaObject(origin, 0)

(***************************************************************************)
(* C12.  While the two-second timer of the latest copy is pending, copied   *)
(* is that copy's mode: no timer of an earlier copy resets it.  Once all    *)
(* timers have fired, copied is null.                                       *)
(***************************************************************************)
C12_CopiedUntilOwnTimer ==
    /\ timers # <<>> => copied = timers[Len(timers)]
    /\ timers = <<>> => copied = "null"

(***************************************************************************)
(* C13.  Whenever no image is shown, result is null: no response that       *)
(* arrives after Start Over puts a result back.                             *)
(***************************************************************************)
C13_NoImageNoResult == image = NoImage => result = JNull

(***************************************************************************)
(* C14.  Once every call has settled, a result that is not the error,      *)
(* displayed with an image, is derived from that image: it is the analysis  *)
(* of that image or a modification of a result derived from it.             *)
(***************************************************************************)
C14_ResultOfShownImage ==
    (/\ analyses = <<>>
     /\ modifications = <<>>
     /\ image # NoImage
     /\ result # JNull
     /\ ~IsErrorShape(result))
    => origin = Base64Of(image)

(***************************************************************************)
(* C15.  The loading flags never stick: with no analysis call in flight     *)
(* isLoading is false and with no modification call in flight isModifying   *)
(* is false; so, every started call settling in the end, neither flag      *)
(* stays set for ever: each is false again and again, whatever the          *)
(* outcomes and whatever uploads and Start Over clicks come in between.     *)
(***************************************************************************)
C15_FlagsNeverStick ==
    /\ [](analyses = <<>> => ~isLoading)
    /\ [](modifications = <<>> => ~isModifying)
    /\ []<>(~isLoading)
    /\ []<>(~isModifying)

\* after a Start Over with a call in flight the call threw, and with
\* everything settled both flags are clear
C15_Witness ==
    /\ lastOp.op \in {"AnalyzeThrow", "ModifyThrow"}
    /\ image = NoImage
    /\ analyses = <<>>
    /\ modifications = <<>>
    /\ ~isLoading
    /\ ~isModifying

====
